---- MODULE Spec2Model ----
(***************************************************************************)
(* A model of disassembler.py: the instruction stream decoder (unpack_op), *)
(* the line table decoder (find_linestarts), the jump target collector     *)
(* (find_labels), the operand value resolver (get_argvalue) and the        *)
(* recursive disassembly engine (disassemble).                             *)
(*                                                                         *)
(* Three specifications share the variables below:                         *)
(*   SpecUnpack  find_labels driving the unpack_op generator over one      *)
(*               byte sequence, one loop iteration per step;               *)
(*   SpecLines   find_linestarts applied to one line table;                *)
(*   Spec        disassemble on a family of callable units, one print      *)
(*               (one loop iteration) per step, with an explicit call      *)
(*               stack for the recursion.                                  *)
(***************************************************************************)
EXTENDS Integers, Sequences, FiniteSets, TLC

VARIABLES
    \* ---- unpack_op / find_labels (SpecUnpack)
    bytecode,        \* co_code handed to unpack_op
    i,               \* the generator's loop variable (byte offset)
    extended_arg,    \* the generator's extension accumulator
    instrs,          \* the triples yielded so far
    labels,          \* find_labels' list
    upc,             \* "run", "returned" or "raised" (IndexError)
    \* ---- find_linestarts (SpecLines)
    co_lnotab,       \* the delta-encoded line table
    co_firstlineno,  \* the first line number
    linestart_dict,  \* the mapping returned
    lpc,             \* "call" or "returned"
    \* ---- disassemble (Spec)
    world,           \* unit id -> the unit's attributes (read-only)
    top,             \* the argument of the outermost disassemble call
    func_addr,       \* the address printed by repr(get_argvalue)
    stack,           \* the frames of the active disassemble calls
    out,             \* everything printed so far
    status,          \* "start", "run", "done" or "raised"
    failure          \* the first exception raised, if any

uvars == <<bytecode, i, extended_arg, instrs, labels, upc>>
lvars == <<co_lnotab, co_firstlineno, linestart_dict, lpc>>
dvars == <<world, top, func_addr, stack, out, status, failure>>
vars == <<bytecode, i, extended_arg, instrs, labels, upc,
          co_lnotab, co_firstlineno, linestart_dict, lpc,
          world, top, func_addr, stack, out, status, failure>>

(***************************************************************************)
(* Bounds of the model.                                                    *)
(***************************************************************************)
MaxInstr == 4
MaxExt == 2
MaxPairs == 3
NumUnits == 3
MaxDepth == 5

(***************************************************************************)
(* The opcode tables of the dis module (CPython 3.9, one of the            *)
(* interpreters that carry co_lnotab and a 16 byte pyc header).            *)
(***************************************************************************)
HAVE_ARGUMENT == 90
EXTENDED_ARG == 144

hasconst == {100}
hasname == {90, 91, 95, 96, 97, 98, 101, 106, 108, 109, 116, 160}
hasjrel == {93, 110, 122, 143, 154}
hasjabs == {111, 112, 113, 114, 115, 121}
haslocal == {124, 125, 126}
hascompare == {107}
hasfree == {135, 136, 137, 138, 148}

\* oparg = None: the instruction has no operand
NoArg == -1

(***************************************************************************)
(* Integer helpers: Python's | on non-negative integers.                   *)
(***************************************************************************)
RECURSIVE BitOr(_, _)
BitOr(a, b) ==
    IF a = 0 THEN b
    ELSE IF b = 0 THEN a
    ELSE (IF (a % 2 = 1) \/ (b % 2 = 1) THEN 1 ELSE 0)
         + 2 * BitOr(a \div 2, b \div 2)

(***************************************************************************)
(* unpack_op: one resumption of the generator.  b is the byte sequence     *)
(* (b[k+1] is Python's bytecode[k]), off the value the loop variable takes *)
(* from range(0, len(bytecode), 2), ext the accumulator on entry.          *)
(*   kind = "stop"   the range is exhausted, the generator returns         *)
(*   kind = "raise"  bytecode[i+1] is past the end (IndexError)            *)
(*   kind = "yield"  the triple (offset, opcode, oparg) is yielded and the *)
(*                   accumulator becomes ext                               *)
(***************************************************************************)
ShiftAcc(opcode, oparg) ==
    IF opcode = EXTENDED_ARG THEN oparg * 256 ELSE 0

UnpackNext(b, off, ext) ==
    IF off >= Len(b)
    THEN [kind |-> "stop", offset |-> off, opcode |-> 0, oparg |-> NoArg,
          ext |-> ext]
    ELSE LET opcode == b[off + 1] IN
         IF opcode >= HAVE_ARGUMENT
         THEN IF off + 2 > Len(b)
              THEN [kind |-> "raise", offset |-> off, opcode |-> opcode,
                    oparg |-> NoArg, ext |-> ext]
              ELSE LET oparg == BitOr(b[off + 2], ext) IN
                   [kind |-> "yield", offset |-> off, opcode |-> opcode,
                    oparg |-> oparg, ext |-> ShiftAcc(opcode, oparg)]
         ELSE [kind |-> "yield", offset |-> off, opcode |-> opcode,
               oparg |-> NoArg, ext |-> ext]

Triple(r) == [offset |-> r.offset, opcode |-> r.opcode, oparg |-> r.oparg]

(***************************************************************************)
(* find_labels: the body of the loop for one yielded triple.               *)
(***************************************************************************)
RelTarget(offset, oparg) == offset + 2 + oparg

IsJump(opcode) == opcode \in hasjrel \/ opcode \in hasjabs

JumpTarget(offset, opcode, oparg) ==
    IF opcode \in hasjrel THEN RelTarget(offset, oparg) ELSE oparg

InList(x, s) == \E k \in 1..Len(s) : s[k] = x

\* a collector that forgets the membership test of line 125
AddLabelAlways(ls, label) == Append(ls, label)

AddLabel(ls, label) == IF InList(label, ls) THEN ls ELSE Append(ls, label)

LabelsUpdate(ls, offset, opcode, oparg) ==
    IF IsJump(opcode)
    THEN AddLabel(ls, JumpTarget(offset, opcode, oparg))
    ELSE ls

\* find_labels as a whole: [ok |-> FALSE] when the generator raises
RECURSIVE FindLabelsFrom(_, _, _, _)
FindLabelsFrom(b, off, ext, ls) ==
    LET r == UnpackNext(b, off, ext) IN
    CASE r.kind = "stop" -> [ok |-> TRUE, labels |-> ls]
      [] r.kind = "raise" -> [ok |-> FALSE, labels |-> ls]
      [] OTHER -> FindLabelsFrom(b, off + 2, r.ext,
                        LabelsUpdate(ls, r.offset, r.opcode, r.oparg))

find_labels(b) == FindLabelsFrom(b, 0, 0, <<>>)

(***************************************************************************)
(* SpecUnpack: find_labels' loop over unpack_op, one iteration per step.   *)
(***************************************************************************)
\* NOP, JUMP_FORWARD, JUMP_ABSOLUTE, EXTENDED_ARG
Opcodes == {9, 110, 113, EXTENDED_ARG}
\* the single byte at the end of an odd length: NOP or JUMP_FORWARD
Trailing == {9, 110}
Operands == {1, 2, 3}

\* the byte sequence of the instructions (ops[k], args[k]), then tail
Interleave(ops, args, tail) ==
    [k \in 1..(2 * Len(ops)) |->
        IF k % 2 = 1 THEN ops[(k + 1) \div 2] ELSE args[k \div 2]] \o tail

\* an even length, or an odd length (a trailing single byte)
Tails == {<<>>} \cup {<<op>> : op \in Trailing}

ExtCount(ops) == Cardinality({k \in 1..Len(ops) : ops[k] = EXTENDED_ARG})

IdleLines ==
    /\ co_lnotab = <<>>
    /\ co_firstlineno = 0
    /\ linestart_dict = <<>>
    /\ lpc = "idle"

IdleDis ==
    /\ world = <<>>
    /\ top = 0
    /\ func_addr = <<>>
    /\ stack = <<>>
    /\ out = <<>>
    /\ status = "idle"
    /\ failure = [kind |-> "none", unit |-> 0, depth |-> 0]

IdleUnpack ==
    /\ bytecode = <<>>
    /\ i = 0
    /\ extended_arg = 0
    /\ instrs = <<>>
    /\ labels = <<>>
    /\ upc = "idle"

InitUnpack ==
    /\ \E n \in 0..MaxInstr :
         \E ops \in [1..n -> Opcodes], args \in [1..n -> Operands],
            tail \in Tails :
            /\ ExtCount(ops) <= MaxExt
            /\ bytecode = Interleave(ops, args, tail)
    /\ i = 0
    /\ extended_arg = 0
    /\ instrs = <<>>
    /\ labels = <<>>
    /\ upc = "run"
    /\ IdleLines
    /\ IdleDis

\* one iteration of "for offset, opcode, oparg in unpack_op(bytecode)"
LabelsIter ==
    /\ upc = "run"
    /\ LET r == UnpackNext(bytecode, i, extended_arg) IN
       /\ r.kind = "yield"
       /\ i' = i + 2
       /\ extended_arg' = r.ext
       /\ instrs' = Append(instrs, Triple(r))
       /\ labels' = LabelsUpdate(labels, r.offset, r.opcode, r.oparg)
       /\ upc' = "run"
    /\ UNCHANGED <<bytecode, lvars, dvars>>

\* the generator is exhausted: find_labels returns labels
LabelsReturn ==
    /\ upc = "run"
    /\ UnpackNext(bytecode, i, extended_arg).kind = "stop"
    /\ upc' = "returned"
    /\ UNCHANGED <<bytecode, i, extended_arg, instrs, labels, lvars, dvars>>

\* bytecode[i+1] raises IndexError, which find_labels does not catch
LabelsRaise ==
    /\ upc = "run"
    /\ UnpackNext(bytecode, i, extended_arg).kind = "raise"
    /\ upc' = "raised"
    /\ UNCHANGED <<bytecode, i, extended_arg, instrs, labels, lvars, dvars>>

NextUnpack == LabelsIter \/ LabelsReturn \/ LabelsRaise

SpecUnpack == InitUnpack /\ [][NextUnpack]_vars

(***************************************************************************)
(* find_linestarts.  A dict is a function on its finite set of keys.       *)
(***************************************************************************)
DictSet(d, k, v) == [x \in (DOMAIN d) \cup {k} |-> IF x = k THEN v ELSE d[x]]

\* a decoder that reads the line increment as unsigned
SignedIncrRaw(v) == v

\* lines 59-60: increments of 0x80 and more are negative
SignedIncr(v) == IF v >= 128 THEN v - 256 ELSE v

\* a decoder that takes the increment for the offset
NextByteAbs(byte, byte_incr) == byte_incr

\* line 55
NextByte(byte, byte_incr) == byte + byte_incr

\* the loop of lines 53-62 from the k-th pair of zip(tab[0::2], tab[1::2]) on
RECURSIVE LinestartsFrom(_, _, _, _, _)
LinestartsFrom(tab, k, byte, line, d) ==
    IF 2 * k > Len(tab) THEN d
    ELSE LET nbyte == NextByte(byte, tab[2 * k - 1])
             nline == line + SignedIncr(tab[2 * k])
         IN LinestartsFrom(tab, k + 1, nbyte, nline, DictSet(d, nbyte, nline))

find_linestarts(tab, first) ==
    LinestartsFrom(tab, 1, 0, first, [x \in {0} |-> first])

(***************************************************************************)
(* SpecLines: find_linestarts applied to one line table.                   *)
(***************************************************************************)
ByteIncrs == {0, 4, 6}
LineIncrs == {0, 1, 128, 255}
FirstLines == {1, 10}

LineTails == {<<>>} \cup {<<b>> : b \in ByteIncrs}

InitLines ==
    /\ \E n \in 0..MaxPairs :
         \E bs \in [1..n -> ByteIncrs], ls \in [1..n -> LineIncrs],
            tail \in LineTails :
            co_lnotab = Interleave(bs, ls, tail)
    /\ co_firstlineno \in FirstLines
    /\ linestart_dict = <<>>
    /\ lpc = "call"
    /\ IdleUnpack
    /\ IdleDis

CallFindLinestarts ==
    /\ lpc = "call"
    /\ linestart_dict' = find_linestarts(co_lnotab, co_firstlineno)
    /\ lpc' = "returned"
    /\ UNCHANGED <<co_lnotab, co_firstlineno, uvars, dvars>>

NextLines == CallFindLinestarts

SpecLines == InitLines /\ [][NextLines]_vars

(***************************************************************************)
(* Values.  A Python value is a record [tag, n, s]: None, an int n, a str  *)
(* s (a sequence of characters), or a code object (the unit number n).     *)
(* AbsentV is get_argvalue's "argval = None", OtherV an object that has no *)
(* co_code attribute.                                                      *)
(***************************************************************************)
NoneV == [tag |-> "None", n |-> 0, s |-> <<>>]
IntV(k) == [tag |-> "int", n |-> k, s |-> <<>>]
StrV(chars) == [tag |-> "str", n |-> 0, s |-> chars]
CodeV(u) == [tag |-> "code", n |-> u, s |-> <<>>]
AbsentV == [tag |-> "absent", n |-> 0, s |-> <<>>]
OtherV == [tag |-> "object", n |-> 0, s |-> <<>>]

\* hasattr(v, 'co_code')
HasCoCode(v) == v.tag = "code"

\* repr of a str without quotes or escapes in it, and of None
ReprStr(chars) == <<"'">> \o chars \o <<"'">>
ReprNone == <<"N", "o", "n", "e">>

\* repr(get_argvalue): "<function get_argvalue at 0x...>"
ReprFunction(addr) ==
    <<"<", "f", "u", "n", "c", "t", "i", "o", "n", " ",
      "g", "e", "t", "_", "a", "r", "g", "v", "a", "l", "u", "e", " ",
      "a", "t", " ", "0", "x">> \o addr \o <<">">>

\* dis.cmp_op
cmp_op == << <<"<">>, <<"<", "=">>, <<"=", "=">>, <<"!", "=">>, <<">">>,
             <<">", "=">> >>

(***************************************************************************)
(* get_argvalue.  c is the unit's record, addr the address of the function *)
(* object get_argvalue.  [ok |-> FALSE] is an IndexError of a table lookup.*)
(***************************************************************************)
Lookup(table, oparg) ==
    IF oparg + 1 > Len(table)
    THEN [ok |-> FALSE, val |-> AbsentV]
    ELSE [ok |-> TRUE, val |-> table[oparg + 1]]

LookupName(table, oparg) ==
    IF oparg + 1 > Len(table)
    THEN [ok |-> FALSE, val |-> AbsentV]
    ELSE [ok |-> TRUE, val |-> StrV(table[oparg + 1])]

\* lines 81-82
ReprConst(v) ==
    IF v.tag = "str" THEN StrV(ReprStr(v.s))
    ELSE IF v.tag = "None" THEN StrV(ReprNone)
    ELSE v

\* lines 91-92: the destination is computed, then overwritten
RelJumpText(offset, oparg, addr) ==
    LET argval == RelTarget(offset, oparg) IN
    StrV(<<"t", "o", " ">> \o ReprFunction(addr))

get_argvalue(offset, c, opcode, oparg, addr) ==
    IF opcode \in hasconst
    THEN LET r == Lookup(c.co_consts, oparg) IN
         [ok |-> r.ok, val |-> ReprConst(r.val)]
    ELSE IF opcode \in hasname THEN LookupName(c.co_names, oparg)
    ELSE IF opcode \in hasjrel
    THEN [ok |-> TRUE, val |-> RelJumpText(offset, oparg, addr)]
    ELSE IF opcode \in haslocal THEN LookupName(c.co_varnames, oparg)
    ELSE IF opcode \in hascompare THEN LookupName(cmp_op, oparg)
    ELSE IF opcode \in hasfree
    THEN LookupName(c.co_cellvars \o c.co_freevars, oparg)
    ELSE [ok |-> TRUE, val |-> AbsentV]

(***************************************************************************)
(* disassemble.                                                            *)
(*                                                                         *)
(* A frame of the call stack is one active call of disassemble:            *)
(*   unit                 the argument c                                   *)
(*   linestarts, labels   the locals of lines 139 and 141                  *)
(*   i, ext               the state of the generator of line 147           *)
(*   code_objects         the list of line 137                             *)
(*   phase, k             "loop" (lines 147-168) or "children" (170-172),  *)
(*                        and the number of code_objects already visited   *)
(***************************************************************************)
\* lines 132-143 for the argument v; the error raised when the call fails
\* before it reaches its loop
EntryError(v) ==
    IF ~HasCoCode(v) THEN "TypeError"
    ELSE IF ~world[v.n].has_tables THEN "AttributeError"
    ELSE IF ~find_labels(world[v.n].co_code).ok THEN "IndexError"
    ELSE "none"

NewFrame(u) ==
    [unit |-> u,
     linestarts |-> find_linestarts(world[u].co_lnotab,
                                    world[u].co_firstlineno),
     labels |-> find_labels(world[u].co_code).labels,
     i |-> 0, ext |-> 0, code_objects |-> <<>>, phase |-> "loop", k |-> 0]

\* a collector that puts the newest code object first
CollectFirst(code_objects, argvalue) ==
    IF HasCoCode(argvalue) THEN <<argvalue>> \o code_objects
    ELSE code_objects

\* lines 152-153
Collect(code_objects, argvalue) ==
    IF HasCoCode(argvalue) THEN Append(code_objects, argvalue)
    ELSE code_objects

\* lines 155-168: what is printed for one instruction.  line is
\* "line_start or ''" (0 when nothing is shown), blank the empty print()
\* of line 166.
InstrRecord(f, r, argvalue) ==
    LET has_line == r.offset \in DOMAIN f.linestarts
        line_start == IF has_line THEN f.linestarts[r.offset] ELSE 0
    IN [kind |-> "record", unit |-> f.unit, offset |-> r.offset,
        opcode |-> r.opcode, oparg |-> r.oparg, argvalue |-> argvalue,
        line |-> line_start, label |-> InList(r.offset, f.labels),
        blank |-> (line_start # 0 /\ r.offset # 0)]

\* line 171: "Disassembly of <oc>:"
Header(oc) ==
    [kind |-> "header", unit |-> oc.n, offset |-> 0, opcode |-> 0,
     oparg |-> NoArg, argvalue |-> oc, line |-> 0, label |-> FALSE,
     blank |-> FALSE]

\* a handler around line 172 that would swallow the callee's exception
UnwindOne(frames) == frames

\* no call of disassemble catches anything: an exception leaves every frame
Unwind(frames) == <<>>

NoFailure == [kind |-> "none", unit |-> 0, depth |-> 0]

Top == stack[Len(stack)]

SetTop(f) == [stack EXCEPT ![Len(stack)] = f]

\* an exception of the given kind is raised with the frames fs active
Raise(kind, u, depth, fs) ==
    /\ failure' = (IF failure.kind = "none"
                   THEN [kind |-> kind, unit |-> u, depth |-> depth]
                   ELSE failure)
    /\ stack' = Unwind(fs)
    /\ status' = (IF Unwind(fs) = <<>> THEN "raised" ELSE "run")

\* the outermost call: lines 132-143
Start ==
    /\ status = "start"
    /\ LET e == EntryError(top) IN
       IF e = "none"
       THEN /\ stack' = <<NewFrame(top.n)>>
            /\ status' = "run"
            /\ UNCHANGED failure
       ELSE Raise(e, top.n, 1, <<>>)
    /\ UNCHANGED <<world, top, func_addr, out, uvars, lvars>>

\* one iteration of the loop of line 147 that prints its record
Instr ==
    /\ status = "run"
    /\ stack # <<>>
    /\ Top.phase = "loop"
    /\ LET f == Top
           r == UnpackNext(world[f.unit].co_code, f.i, f.ext)
           a == get_argvalue(r.offset, world[f.unit], r.opcode, r.oparg,
                             func_addr)
       IN /\ r.kind = "yield"
          /\ a.ok
          /\ out' = Append(out, InstrRecord(f, r, a.val))
          /\ stack' = SetTop([f EXCEPT !.i = f.i + 2, !.ext = r.ext,
                         !.code_objects = Collect(f.code_objects, a.val)])
    /\ UNCHANGED <<world, top, func_addr, status, failure, uvars, lvars>>

\* one iteration of the loop of line 147 that raises: the generator reads
\* past the end, or get_argvalue indexes past the end of a table
InstrRaise ==
    /\ status = "run"
    /\ stack # <<>>
    /\ Top.phase = "loop"
    /\ LET f == Top
           r == UnpackNext(world[f.unit].co_code, f.i, f.ext)
       IN /\ \/ r.kind = "raise"
             \/ /\ r.kind = "yield"
                /\ ~get_argvalue(r.offset, world[f.unit], r.opcode, r.oparg,
                                 func_addr).ok
          /\ Raise("IndexError", f.unit, Len(stack),
                   SubSeq(stack, 1, Len(stack) - 1))
    /\ UNCHANGED <<world, top, func_addr, out, uvars, lvars>>

\* the generator is exhausted: the loop of line 170 begins
LoopEnd ==
    /\ status = "run"
    /\ stack # <<>>
    /\ Top.phase = "loop"
    /\ UnpackNext(world[Top.unit].co_code, Top.i, Top.ext).kind = "stop"
    /\ stack' = SetTop([Top EXCEPT !.phase = "children"])
    /\ UNCHANGED <<world, top, func_addr, out, status, failure, uvars, lvars>>

\* lines 171-172 for the next code object: the header, then the call
ChildCall ==
    /\ status = "run"
    /\ stack # <<>>
    /\ Len(stack) < MaxDepth
    /\ Top.phase = "children"
    /\ Top.k < Len(Top.code_objects)
    /\ LET oc == Top.code_objects[Top.k + 1]
           caller == SetTop([Top EXCEPT !.k = Top.k + 1])
           e == EntryError(oc)
       IN /\ out' = Append(out, Header(oc))
          /\ IF e = "none"
             THEN /\ stack' = Append(caller, NewFrame(oc.n))
                  /\ UNCHANGED <<status, failure>>
             ELSE Raise(e, oc.n, Len(stack) + 1, caller)
    /\ UNCHANGED <<world, top, func_addr, uvars, lvars>>

\* the loop of line 170 is exhausted: the call returns
Return ==
    /\ status = "run"
    /\ stack # <<>>
    /\ Top.phase = "children"
    /\ Top.k = Len(Top.code_objects)
    /\ stack' = SubSeq(stack, 1, Len(stack) - 1)
    /\ status' = (IF Len(stack) = 1 THEN "done" ELSE "run")
    /\ UNCHANGED <<world, top, func_addr, out, failure, uvars, lvars>>

(***************************************************************************)
(* Spec: the callable units disassemble is applied to.                     *)
(***************************************************************************)
Units == 1..NumUnits

\* LOAD_CONST 0; LOAD_CONST 1; LOAD_CONST 2; RETURN_VALUE
CodeLoads == <<100, 0, 100, 1, 100, 2, 83, 0>>
\* JUMP_FORWARD 2; LOAD_NAME 0; LOAD_CONST 2; COMPARE_OP 2; LOAD_CONST 0;
\* RETURN_VALUE
CodeJump == <<110, 2, 101, 0, 100, 2, 107, 2, 100, 0, 83, 0>>
\* LOAD_CONST 0; then a single byte LOAD_CONST
CodeOddArg == <<100, 0, 100>>

Codes == {CodeLoads, CodeJump}

\* the k-th unit after u, or a plain constant when there is none
Child(u, k) == IF u + k <= NumUnits THEN CodeV(u + k) ELSE IntV(k)

PlainPool == <<NoneV, StrV(<<"A">>), IntV(7)>>

ConstPools(u) ==
    { PlainPool,
      <<Child(u, 1), StrV(<<"B">>), Child(u, 2)>>,
      <<Child(u, 1), Child(u, 1)>>,
      <<CodeV(u), NoneV, IntV(7)>> }

MkUnit(u, code, consts, tables) ==
    [co_code |-> code, co_consts |-> consts,
     co_names |-> << <<"a">> >>, co_varnames |-> << <<"x">> >>,
     co_cellvars |-> <<>>, co_freevars |-> << <<"t">> >>,
     co_lnotab |-> <<0, 0, 4, 1, 6, 255>>, co_firstlineno |-> 10 * u,
     has_tables |-> tables]

\* well-formed streams over every pool, a stream of odd length, and an
\* object that has co_code but none of the other attributes
UnitChoices(u) ==
    {MkUnit(u, code, consts, TRUE) : code \in Codes, consts \in ConstPools(u)}
    \cup {MkUnit(u, CodeOddArg, PlainPool, TRUE),
          MkUnit(u, CodeLoads, PlainPool, FALSE)}

Addresses == {<<"7", "f", "3", "a">>, <<"1", "0", "b", "0">>}

Init ==
    /\ world \in [Units -> UNION {UnitChoices(u) : u \in Units}]
    /\ \A u \in Units : world[u] \in UnitChoices(u)
    /\ top \in {CodeV(1), OtherV}
    /\ func_addr \in Addresses
    /\ stack = <<>>
    /\ out = <<>>
    /\ status = "start"
    /\ failure = NoFailure
    /\ IdleUnpack
    /\ IdleLines

Next == Start \/ Instr \/ InstrRaise \/ LoopEnd \/ ChildCall \/ Return

Spec == Init /\ [][Next]_vars

(***************************************************************************)
(* Properties of unpack_op and find_labels (checked under SpecUnpack).     *)
(***************************************************************************)
\* the operand byte that the p-th yielded instruction carries itself
OwnByte(p) == bytecode[instrs[p].offset + 2]

HasArg(p) == instrs[p].opcode >= HAVE_ARGUMENT

\* the number of consecutive EXTENDED_ARG instructions right before p
RECURSIVE ExtRunLen(_)
ExtRunLen(p) ==
    IF p = 1 THEN 0
    ELSE IF instrs[p - 1].opcode # EXTENDED_ARG THEN 0
    ELSE 1 + ExtRunLen(p - 1)

\* the base-256 number whose digits are the operand bytes of p-k .. p
RECURSIVE Base256(_, _)
Base256(p, k) ==
    IF k = 0 THEN OwnByte(p) ELSE Base256(p - 1, k - 1) * 256 + OwnByte(p)

\* C2: an argument-bearing non-extension instruction that follows a run of
\* k >= 1 consecutive EXTENDED_ARG instructions gets as raw operand the
\* base-256 number b1 b2 ... bk b0 of the run's bytes and its own byte.
C2_ChainedOperand ==
    \A p \in 1..Len(instrs) :
        (HasArg(p) /\ instrs[p].opcode # EXTENDED_ARG /\ ExtRunLen(p) >= 1)
            => instrs[p].oparg = Base256(p, ExtRunLen(p))

\* C3: a byte sequence of odd length never lets the decoding loop complete
\* normally; it ends in an error whatever the trailing opcode byte is.
C3_OddLengthRejected ==
    (Len(bytecode) % 2 = 1) => upc # "returned"

\* C9: the accumulator is nonzero only right after an EXTENDED_ARG
\* instruction, and an argument-bearing instruction whose predecessor is not
\* an EXTENDED_ARG instruction has its own operand byte as raw operand.
C9_AccumulatorReset ==
    /\ (upc = "run" /\ extended_arg # 0)
          => (instrs # <<>> /\ instrs[Len(instrs)].opcode = EXTENDED_ARG)
    /\ \A p \in 1..Len(instrs) :
          (HasArg(p) /\ ExtRunLen(p) = 0) => instrs[p].oparg = OwnByte(p)

\* the destination of a jump instruction, as the claim states it
Dest(t) == IF t.opcode \in hasjrel THEN t.offset + 2 + t.oparg ELSE t.oparg

JumpIdx == {p \in 1..Len(instrs) : IsJump(instrs[p].opcode)}

FirstIdx(label) ==
    CHOOSE p \in JumpIdx :
        /\ Dest(instrs[p]) = label
        /\ \A q \in JumpIdx : Dest(instrs[q]) = label => p <= q

\* C7: the list of labels has no duplicates, holds exactly the destinations
\* of the jump instructions decoded so far (o + 2 + a for a relative jump,
\* a for an absolute one), and lists them in order of first discovery.
C7_Labels ==
    /\ \A j, k \in 1..Len(labels) : j # k => labels[j] # labels[k]
    /\ {labels[k] : k \in 1..Len(labels)} = {Dest(instrs[p]) : p \in JumpIdx}
    /\ \A j, k \in 1..Len(labels) :
          j < k => FirstIdx(labels[j]) < FirstIdx(labels[k])

\* find_labels returned a list of two labels for a stream with three jumps,
\* a relative one among them: one destination was discovered twice
C7_Witness ==
    /\ upc = "returned"
    /\ Len(labels) = 2
    /\ Cardinality(JumpIdx) = 3
    /\ \E p \in JumpIdx : instrs[p].opcode \in hasjrel

(***************************************************************************)
(* Properties of find_linestarts (checked under SpecLines).                *)
(***************************************************************************)
PairCount == Len(co_lnotab) \div 2

\* the running offset and the running line after the first k pairs
RECURSIVE OffsetAfter(_)
OffsetAfter(k) ==
    IF k = 0 THEN 0 ELSE OffsetAfter(k - 1) + co_lnotab[2 * k - 1]

RECURSIVE LineAfter(_)
LineAfter(k) ==
    IF k = 0 THEN co_firstlineno
    ELSE LineAfter(k - 1)
         + (IF co_lnotab[2 * k] >= 128 THEN co_lnotab[2 * k] - 256
            ELSE co_lnotab[2 * k])

RunningOffsets == {OffsetAfter(k) : k \in 0..PairCount}

\* the last pair (0 for the initial entry) that lands on offset o
LastAt(o) ==
    CHOOSE k \in 0..PairCount :
        /\ OffsetAfter(k) = o
        /\ \A j \in 0..PairCount : OffsetAfter(j) = o => j <= k

ExampleTable == <<0, 0, 4, 1, 6, 255>>
ExampleDict == [x \in {0, 4, 10} |-> IF x = 4 THEN 11 ELSE 10]

\* C5: the mapping returned holds, for every running offset (0 and the sums
\* of the byte increments), the running line (first line plus the signed
\* line increments) of the last pair that reaches that offset, and nothing
\* else; first line 10 with pairs (0,0),(4,1),(6,-1) gives {0:10,4:11,10:10}.
C5_Linestarts ==
    lpc = "returned" =>
        /\ DOMAIN linestart_dict = RunningOffsets
        /\ \A o \in RunningOffsets : linestart_dict[o] = LineAfter(LastAt(o))
        /\ (co_lnotab = ExampleTable /\ co_firstlineno = 10)
              => linestart_dict = ExampleDict

C5_Witness ==
    /\ lpc = "returned"
    /\ co_lnotab = ExampleTable
    /\ co_firstlineno = 10
    /\ linestart_dict = ExampleDict

\* C6 as stated: a table of n pairs gives a mapping with n + 1 entries.
C6_OneEntryPerPair ==
    lpc = "returned" => Cardinality(DOMAIN linestart_dict) = PairCount + 1

\* C6 amended: the mapping has one entry per distinct running offset, hence
\* at most n + 1 entries, and n + 1 when every byte increment is nonzero.
C6_OneEntryPerOffset ==
    lpc = "returned" =>
        /\ Cardinality(DOMAIN linestart_dict) = Cardinality(RunningOffsets)
        /\ Cardinality(DOMAIN linestart_dict) <= PairCount + 1
        /\ (\A k \in 1..PairCount : co_lnotab[2 * k - 1] # 0)
              => Cardinality(DOMAIN linestart_dict) = PairCount + 1

\* three pairs, two of them with a zero byte increment: two entries
C6_Witness ==
    /\ lpc = "returned"
    /\ PairCount = 3
    /\ Cardinality(DOMAIN linestart_dict) = 2

(***************************************************************************)
(* Properties of get_argvalue and disassemble (checked under Spec).        *)
(***************************************************************************)
Digits == <<"0", "1", "2", "3", "4", "5", "6", "7", "8", "9">>

\* the decimal numeral of a natural number
RECURSIVE ReprInt(_)
ReprInt(n) ==
    IF n < 10 THEN <<Digits[n + 1]>>
    ELSE ReprInt(n \div 10) \o <<Digits[(n % 10) + 1]>>

Contains(text, part) ==
    \E k \in 0..(Len(text) - Len(part)) :
        SubSeq(text, k + 1, k + Len(part)) = part

\* C1: the value resolved for a relative jump at offset o with raw operand a
\* is text that contains the destination o + 2 + a.
C1_RelJumpText ==
    \A k \in 1..Len(out) :
        (out[k].kind = "record" /\ out[k].opcode \in hasjrel)
            => /\ out[k].argvalue.tag = "str"
               /\ Contains(out[k].argvalue.s,
                           ReprInt(out[k].offset + 2 + out[k].oparg))

\* what is printed, reduced to which unit and which offset it is about
Event(kind, u, offset) == [kind |-> kind, unit |-> u, offset |-> offset]

Trace == [k \in 1..Len(out) |-> Event(out[k].kind, out[k].unit, out[k].offset)]

\* one record per instruction of the unit, in ascending offset order
RecordsOf(u) ==
    [j \in 1..((Len(world[u].co_code) + 1) \div 2) |->
        Event("record", u, 2 * (j - 1))]

\* the instructions of a byte sequence, as far as they decode
RECURSIVE Decoded(_, _, _)
Decoded(b, off, ext) ==
    LET r == UnpackNext(b, off, ext) IN
    IF r.kind = "yield" THEN <<Triple(r)>> \o Decoded(b, off + 2, r.ext)
    ELSE <<>>

LoadsUnit(u, t) ==
    /\ t.opcode \in hasconst
    /\ t.oparg < Len(world[u].co_consts)
    /\ world[u].co_consts[t.oparg + 1].tag = "code"

\* the nested units of u in the order in which its instructions load them
LoadedUnits(u) ==
    LET ts == Decoded(world[u].co_code, 0, 0)
        IsLoad(t) == LoadsUnit(u, t)
        loads == SelectSeq(ts, IsLoad)
    IN [j \in 1..Len(loads) |-> world[u].co_consts[loads[j].oparg + 1].n]

RECURSIVE ExpectedTrace(_)
RECURSIVE NestedTraces(_)
\* the listing of u: its records, then every nested unit's header and listing
ExpectedTrace(u) == RecordsOf(u) \o NestedTraces(LoadedUnits(u))

NestedTraces(us) ==
    IF us = <<>> THEN <<>>
    ELSE <<Event("header", Head(us), 0)>> \o ExpectedTrace(Head(us))
         \o NestedTraces(Tail(us))

\* C4: when disassemble completes, it has printed one record per instruction
\* of the unit in ascending offset order and then, for each nested unit in
\* the order in which the unit's pass met it, a header followed by that
\* unit's complete listing, depth-first.
C4_EmissionOrder ==
    status = "done" => Trace = ExpectedTrace(top.n)

Headers == SelectSeq(Trace, LAMBDA e : e.kind = "header")

\* unit 1 nests units 2 and 3, unit 2 nests unit 3: the listing of 3 inside
\* that of 2 comes before the listing of 3 as a sibling of 2
C4_Witness ==
    /\ status = "done"
    /\ Len(Headers) >= 3
    /\ Headers[1].unit = 2
    /\ Headers[2].unit = 3
    /\ Headers[Len(Headers)].unit = 3

IsPrefix(a, b) == Len(a) <= Len(b) /\ SubSeq(b, 1, Len(a)) = a

\* C8: what has been printed stays printed; a failure leaves every active
\* call of disassemble, the outermost included; nothing is printed after the
\* first failure.
C8_FailureStops ==
    [][ /\ IsPrefix(out, out')
        /\ (failure'.kind # "none") => (status' = "raised" /\ stack' = <<>>)
        /\ (failure.kind # "none") => (out' = out) ]_vars

\* unit 2, nested in unit 1 before unit 3, failed after printing a record:
\* the records of unit 1 and of unit 2 are there, no header of unit 3 is
C8_Witness ==
    /\ status = "raised"
    /\ failure.kind = "IndexError"
    /\ failure.unit = 2
    /\ failure.depth = 2
    /\ LoadedUnits(1) = <<2, 3>>
    /\ \E k \in 1..Len(Trace) : Trace[k] = Event("record", 1, 0)
    /\ \E k \in 1..Len(Trace) : Trace[k] = Event("record", 2, 0)
    /\ \A k \in 1..Len(Trace) : Trace[k] # Event("header", 3, 0)

\* C10: the recursion never enters a unit whose listing is still under way,
\* which every terminating disassembly of a finite set of units satisfies.
C10_NoReentry ==
    \A j, k \in 1..Len(stack) : j # k => stack[j].unit # stack[k].unit

====
